---- MODULE Spec2Model ----
(***************************************************************************)
(* Keyword search over a list of files with four interchangeable searcher  *)
(* classes (searcher.py): SingleThreadSearcher, MultiThreadSearcher,       *)
(* MultiProcessSearcher and MultiProcessSearcher2, driven as run_tests     *)
(* (test.py) drives them: one fresh searcher per class, in that order, on  *)
(* the same files and key words.                                           *)
(*                                                                         *)
(* Strings are sequences of one-character strings; Ord gives the code      *)
(* point Python compares by.  A file of the list is referred to by its     *)
(* index k in `files` (its name is files[k]).                              *)
(*                                                                         *)
(* multiprocessing.Queue is modelled as CPython implements it: put()       *)
(* appends to a buffer local to the putting process, a feeder thread of    *)
(* that process moves the buffer to the pipe, empty() polls the pipe, and  *)
(* get(block=False) raises Empty when the reader lock is held by another   *)
(* process or the pipe holds nothing.  A process does not exit before its  *)
(* feeder has flushed, so for the result queue, whose only reader is the   *)
(* parent, a put and its flush are one step taken while the worker is      *)
(* alive.  For the file queue the buffer is the parent's and the workers   *)
(* read the pipe while the feeder runs: buffer and pipe are both state.    *)
(***************************************************************************)
EXTENDS Integers, Sequences, FiniteSets, Bags, TLC

\* ---------------------------------------------------------------- bounds
MaxFiles == 3
MaxWorkers == 2
MaxCalls == 2
MaxFewFiles == 2
MaxProcs == 3

\* ------------------------------------------------------- strings, tuples
Ord(c) ==
  CASE c = " " -> 32
    [] c = "G" -> 71
    [] c = "a" -> 97
    [] c = "b" -> 98
    [] c = "g" -> 103
    [] c = "m" -> 109
    [] c = "o" -> 111
    [] c = "s" -> 115
    [] c = "x" -> 120

\* str.lower() on one character
LowerChar(c) == IF c = "G" THEN "g" ELSE c

\* line.lower()
Lower(line) == [p \in 1..Len(line) |-> LowerChar(line[p])]

\* `word in line`: substring containment
Contains(line, word) ==
  \E p \in 0..(Len(line) - Len(word)) : SubSeq(line, p + 1, p + Len(word)) = word

RECURSIVE StrLess(_, _)
\* s < t for Python strings: lexicographic by code point
StrLess(s, t) ==
  IF t = <<>> THEN FALSE
  ELSE IF s = <<>> THEN TRUE
  ELSE IF Ord(Head(s)) < Ord(Head(t)) THEN TRUE
  ELSE IF Ord(Head(s)) > Ord(Head(t)) THEN FALSE
  ELSE StrLess(Tail(s), Tail(t))

\* a < b for the tuples (word, file_name, line_number)
TupleLess(a, b) ==
  IF a[1] # b[1] THEN StrLess(a[1], b[1])
  ELSE IF a[2] # b[2] THEN StrLess(a[2], b[2])
  ELSE a[3] < b[3]

RECURSIVE InsertSorted(_, _)
InsertSorted(x, s) ==
  IF s = <<>> THEN <<x>>
  ELSE IF TupleLess(x, Head(s)) THEN <<x>> \o s
  ELSE <<Head(s)>> \o InsertSorted(x, Tail(s))

RECURSIVE SortFrom(_, _)
SortFrom(s, acc) ==
  IF s = <<>> THEN acc ELSE SortFrom(Tail(s), InsertSorted(Head(s), acc))

SortUnsorted(r) == r

\* self.results.sort(): ascending, stable
Sort(r) == SortFrom(r, <<>>)

IsSorted(r) == \A p \in 1..(Len(r) - 1) : ~TupleLess(r[p + 1], r[p])

BagOfSeq(s) ==
  LET R == {s[p] : p \in DOMAIN s}
  IN  [m \in R |-> Cardinality({p \in DOMAIN s : s[p] = m})]

\* ------------------------------------------------------------ the inputs
Go == <<"g", "o">>
As == <<"a", "s">>
FileA == <<"a">>
FileB == <<"b">>
FileM == <<"m">>
FileX == <<"x">>

FileNames == {FileA, FileB, FileM, FileX}

\* What open(file_name) and iterating the file give: FileM does not exist;
\* reading FileX raises after its first line (an undecodable byte follows it).
Disk(name) ==
  CASE name = FileA ->
         [exists |-> TRUE, raises |-> FALSE,
          lines |-> << <<"G", "o", "g", "o">>, <<"g", "o", " ", "a", "s">> >>]
    [] name = FileB ->
         [exists |-> TRUE, raises |-> FALSE, lines |-> << <<"a", "s">> >>]
    [] name = FileM ->
         [exists |-> FALSE, raises |-> FALSE, lines |-> <<>>]
    [] name = FileX ->
         [exists |-> TRUE, raises |-> TRUE, lines |-> << <<"g", "o">> >>]

KeywordLists == {<<>>, <<Go>>, <<Go, As>>}

RECURSIVE FileLists(_, _)
\* the lists of at most n distinct names of S
FileLists(S, n) ==
  IF n = 0 THEN {<<>>}
  ELSE LET P == FileLists(S, n - 1)
           Longest == {t \in P : Len(t) = n - 1}
       IN  P \cup {Append(s, x) : <<s, x>> \in
                     {q \in Longest \X S : \A p \in DOMAIN q[1] : q[1][p] # q[2]}}

Workers == 1..MaxProcs
WorkerCounts == (-1)..MaxWorkers

Classes ==
  <<"SingleThreadSearcher", "MultiThreadSearcher",
    "MultiProcessSearcher", "MultiProcessSearcher2">>

VARIABLES
  files, key_words, n_workers,      \* the arguments of run_tests
  cur, results, calls,              \* the searcher under test
  ppc, pi,                          \* the caller of search(): position, loop index
  wpc, args, wrest, wk, wi, wj,     \* per worker: position, `files` argument, files left,
                                    \*   current file, line, word
  locker,                           \* MultiThreadSearcher.locker: 0 or its holder
  queue,                            \* result Queue: what its pipe holds
  files_queue, fq_buf, fq_rlock,    \* file Queue: pipe, parent's put buffer, reader lock
  base, first, ref,                 \* results at call start / after 1st call / of Single
  raw,                              \* results as the last start_workers left them
  sent, owner, pops, done, faulted, \* history of the call in progress: tuples pushed,
  late                              \*   who got file k, how often k was taken, files read
                                    \*   through, workers that raised, tuples drained late

vars ==
  <<files, key_words, n_workers, cur, results, calls, ppc, pi,
    wpc, args, wrest, wk, wi, wj, locker, queue,
    files_queue, fq_buf, fq_rlock, base, first, ref, raw,
    sent, owner, pops, done, faulted, late>>

inputs == <<files, key_words, n_workers>>
fileq == <<files_queue, fq_buf, fq_rlock>>

cls == Classes[cur]
F == Len(files)
IsProc == cls \in {"MultiProcessSearcher", "MultiProcessSearcher2"}

\* ------------------------------------------------------- search_words
WordsOrDefault == IF key_words = <<>> THEN <<Go>> ELSE key_words

\* what `for word in key_words` runs over
Words == key_words

\* The next thing search_words does from line i, word j of file k: push a
\* match, raise, or return.
RECURSIVE NextEvent(_, _, _)
NextEvent(k, i, j) ==
  LET f == Disk(files[k])
  IN  IF ~f.exists THEN [kind |-> "eof", i |-> i, j |-> j]
      ELSE IF i >= Len(f.lines)
           THEN [kind |-> IF f.raises THEN "fault" ELSE "eof", i |-> i, j |-> j]
      ELSE IF j > Len(Words) THEN NextEvent(k, i + 1, 1)
      ELSE IF Contains(Lower(f.lines[i + 1]), Words[j])
           THEN [kind |-> "match", i |-> i, j |-> j]
      ELSE NextEvent(k, i, j + 1)

MatchAtOneBased(k, i, j) == <<Words[j], files[k], i + 1>>

\* the tuple pushed for word j on line i of file k
MatchAt(k, i, j) == <<Words[j], files[k], i>>

RECURSIVE ScanFrom(_, _, _)
\* every tuple search_words pushes for file k from line i, word j on
ScanFrom(k, i, j) ==
  LET ev == NextEvent(k, i, j)
  IN  IF ev.kind = "match"
      THEN <<MatchAt(k, ev.i, ev.j)>> \o ScanFrom(k, ev.i, ev.j + 1)
      ELSE <<>>

\* ------------------------------------------------- static partitioning
FloorFilesPerWorker == F \div n_workers

\* files_per_worker = (len(self.files) + n_workers - 1) // n_workers
files_per_worker == (F + n_workers - 1) \div n_workers

Min(a, b) == IF a < b THEN a ELSE b

\* the indices of self.files[i * files_per_worker : (i + 1) * files_per_worker]
Slice(i) ==
  LET lo == Min(i * files_per_worker, F)
      hi == Min((i + 1) * files_per_worker, F)
  IN  [p \in 1..(hi - lo) |-> lo + p]

Range(s) == {s[p] : p \in DOMAIN s}

\* ------------------------------------------------------------------ Init
NoWorkers ==
  /\ wpc = [w \in Workers |-> "none"]
  /\ args = [w \in Workers |-> <<>>]
  /\ wrest = [w \in Workers |-> <<>>]
  /\ wk = [w \in Workers |-> 0]
  /\ wi = [w \in Workers |-> 0]
  /\ wj = [w \in Workers |-> 1]

NoHistory ==
  /\ sent = EmptyBag
  /\ late = 0
  /\ owner = [k \in 1..F |-> 0]
  /\ pops = [k \in 1..F |-> 0]
  /\ done = {}
  /\ faulted = {}

ResetHistory ==
  /\ sent' = EmptyBag
  /\ late' = 0
  /\ pops' = [k \in 1..F |-> 0]
  /\ done' = {}
  /\ faulted' = {}

history == <<sent, owner, pops, done, faulted, late>>
saved == <<base, first, ref, raw>>

\* SearcherBase.__init__: a fresh searcher of one of the classes, on a list
\* of at most maxlen files, and the n_workers search() will be called with
InitWith(counts, maxlen) ==
  /\ files \in FileLists(FileNames, maxlen)
  /\ key_words \in KeywordLists
  /\ n_workers \in counts
  /\ cur \in 1..Len(Classes)
  /\ results = <<>>
  /\ calls = 0
  /\ ppc = "idle"
  /\ pi = 0
  /\ NoWorkers
  /\ locker = 0
  /\ queue = <<>>
  /\ files_queue = <<>>
  /\ fq_buf = <<>>
  /\ fq_rlock = 0
  /\ base = <<>>
  /\ first = <<>>
  /\ ref = <<>>
  /\ raw = <<>>
  /\ NoHistory

Init == InitWith(WorkerCounts, MaxFiles)

\* ------------------------------------------------------------ the caller
Resting == ppc \in {"idle", "raised"}

\* The next searcher of run_tests: SearcherBase.__init__ on the same arguments.
NewSearcher ==
  /\ Resting
  /\ calls >= 1
  /\ cur < Len(Classes)
  /\ cur' = cur + 1
  /\ results' = <<>>
  /\ calls' = 0
  /\ ppc' = "idle"
  /\ base' = <<>>
  /\ first' = <<>>
  /\ ResetHistory
  /\ owner' = [k \in 1..F |-> 0]
  /\ raw' = <<>>
  /\ pi' = 0
  /\ wpc' = [w \in Workers |-> "none"]
  /\ args' = [w \in Workers |-> <<>>]
  /\ UNCHANGED <<inputs, wrest, wk, wi, wj, locker, queue, fileq, ref>>

\* search() up to its call of start_workers, and start_workers up to its
\* first loop.
Search ==
  /\ Resting
  /\ calls < MaxCalls
  /\ calls' = calls + 1
  /\ base' = results
  /\ ResetHistory
  /\ pi' = 0
  /\ wk' = [w \in Workers |-> 0]
  /\ wi' = [w \in Workers |-> 0]
  /\ wj' = [w \in Workers |-> 1]
  /\ raw' = <<>>
  /\ UNCHANGED <<inputs, cur, results, first, ref>>
  /\ CASE cls = "SingleThreadSearcher" ->
            \* self.worker(self.files, self.key_words), run by the caller
            /\ ppc' = "inline"
            /\ wpc' = [w \in Workers |-> IF w = 1 THEN "next" ELSE "none"]
            /\ wrest' = [w \in Workers |-> IF w = 1 THEN [p \in 1..F |-> p] ELSE <<>>]
            /\ args' = [w \in Workers |-> IF w = 1 THEN [p \in 1..F |-> p] ELSE <<>>]
            /\ owner' = [k \in 1..F |-> 1]
            /\ UNCHANGED <<locker, queue, fileq>>
       [] cls = "MultiThreadSearcher" ->
            /\ ppc' = IF n_workers = 0 THEN "raised" ELSE "spawn"
            /\ locker' = 0
            /\ wpc' = [w \in Workers |-> "none"]
            /\ wrest' = [w \in Workers |-> <<>>]
            /\ args' = [w \in Workers |-> <<>>]
            /\ owner' = [k \in 1..F |-> 0]
            /\ UNCHANGED <<queue, fileq>>
       [] cls = "MultiProcessSearcher" ->
            /\ ppc' = IF n_workers = 0 THEN "raised" ELSE "spawn"
            /\ queue' = <<>>
            /\ wpc' = [w \in Workers |-> "none"]
            /\ wrest' = [w \in Workers |-> <<>>]
            /\ args' = [w \in Workers |-> <<>>]
            /\ owner' = [k \in 1..F |-> 0]
            /\ UNCHANGED <<locker, fileq>>
       [] cls = "MultiProcessSearcher2" ->
            \* for f in self.files: files_queue.put(f)
            /\ ppc' = "spawn"
            /\ queue' = <<>>
            /\ fq_buf' = [p \in 1..F |-> p]
            /\ files_queue' = <<>>
            /\ fq_rlock' = 0
            /\ wpc' = [w \in Workers |-> "none"]
            /\ wrest' = [w \in Workers |-> <<>>]
            /\ args' = [w \in Workers |-> <<>>]
            /\ owner' = [k \in 1..F |-> 0]
            /\ UNCHANGED locker

\* ------------------------------------------------------------ workers
\* The worker function has returned.  A thread (or the inline call) is over;
\* a process is alive until it has exited.
Finish(w) ==
  /\ wpc' = [wpc EXCEPT ![w] = IF IsProc THEN "flush" ELSE "dead"]
  /\ wrest' = [wrest EXCEPT ![w] = <<>>]
  /\ wk' = [wk EXCEPT ![w] = 0]
  /\ wi' = [wi EXCEPT ![w] = 0]
  /\ wj' = [wj EXCEPT ![w] = 1]

\* SearcherBase.worker: `for fname in files`
WNext(w) ==
  /\ wpc[w] = "next"
  /\ IF wrest[w] = <<>>
     THEN /\ Finish(w)
          /\ UNCHANGED pops
     ELSE /\ wpc' = [wpc EXCEPT ![w] = "scan"]
          /\ wk' = [wk EXCEPT ![w] = Head(wrest[w])]
          /\ wrest' = [wrest EXCEPT ![w] = Tail(wrest[w])]
          /\ wi' = [wi EXCEPT ![w] = 0]
          /\ wj' = [wj EXCEPT ![w] = 1]
          /\ pops' = [pops EXCEPT ![Head(wrest[w])] = @ + 1]
  /\ UNCHANGED <<inputs, args, cur, results, calls, ppc, pi, locker, queue, fileq,
                 saved, sent, owner, done, faulted, late>>

\* MultiProcessSearcher2.worker: files.get(block=False), the reader lock.
\* A lock held by another worker makes get raise Empty: the worker returns.
WGet(w) ==
  /\ wpc[w] = "get"
  /\ IF fq_rlock # 0
     THEN /\ Finish(w)
          /\ UNCHANGED fq_rlock
     ELSE /\ fq_rlock' = w
          /\ wpc' = [wpc EXCEPT ![w] = "recv"]
          /\ UNCHANGED <<wrest, wk, wi, wj>>
  /\ UNCHANGED <<inputs, args, cur, results, calls, ppc, pi, locker, queue,
                 files_queue, fq_buf, saved, history>>

RecvKeep(q) == q

\* what recv_bytes leaves in the pipe
RecvRest(q) == Tail(q)

\* files.get(block=False) under the reader lock: poll the pipe, receive, release.
\* An empty pipe makes get raise Empty: the worker returns.
WRecv(w) ==
  /\ wpc[w] = "recv"
  /\ fq_rlock' = 0
  /\ IF files_queue = <<>>
     THEN /\ Finish(w)
          /\ UNCHANGED <<files_queue, pops, owner>>
     ELSE /\ wpc' = [wpc EXCEPT ![w] = "scan"]
          /\ wk' = [wk EXCEPT ![w] = Head(files_queue)]
          /\ wi' = [wi EXCEPT ![w] = 0]
          /\ wj' = [wj EXCEPT ![w] = 1]
          /\ files_queue' = RecvRest(files_queue)
          /\ pops' = [pops EXCEPT ![Head(files_queue)] = @ + 1]
          /\ owner' = [owner EXCEPT ![Head(files_queue)] = w]
          /\ UNCHANGED wrest
  /\ UNCHANGED <<inputs, args, cur, results, calls, ppc, pi, locker, queue,
                 fq_buf, saved, sent, done, faulted, late>>

AfterFaultUncaught == IF cls = "SingleThreadSearcher" THEN "raised" ELSE ppc

\* Where the caller of search() is after a worker raised: worker() catches
\* Exception and logs it, so the caller goes on as before.
AfterFault == ppc

FaultSkipsFile(w) ==
  /\ wpc' = [wpc EXCEPT ![w] = IF cls = "MultiProcessSearcher2" THEN "get" ELSE "next"]
  /\ wk' = [wk EXCEPT ![w] = 0]
  /\ wi' = [wi EXCEPT ![w] = 0]
  /\ wj' = [wj EXCEPT ![w] = 1]
  /\ UNCHANGED wrest

\* An exception leaves search_words and the loop over the files: worker()
\* logs it and returns, whatever files were left.
FaultEnds(w) == Finish(w)

LockerIgnored == TRUE

\* `with self.locker` can be entered: no thread holds the lock
LockerFree == locker = 0

\* search_words up to its next push, raise or return
WScan(w) ==
  /\ wpc[w] = "scan"
  /\ LET ev == NextEvent(wk[w], wi[w], wj[w])
         m == MatchAt(wk[w], ev.i, ev.j)
     IN  CASE ev.kind = "eof" ->
                \* the file is read through, or FileNotFoundError was logged
                /\ done' = done \cup {wk[w]}
                /\ wpc' = [wpc EXCEPT ![w] =
                             IF cls = "MultiProcessSearcher2" THEN "get" ELSE "next"]
                /\ wk' = [wk EXCEPT ![w] = 0]
                /\ wi' = [wi EXCEPT ![w] = 0]
                /\ wj' = [wj EXCEPT ![w] = 1]
                /\ UNCHANGED <<ppc, results, locker, queue, sent, faulted, wrest>>
           [] ev.kind = "fault" ->
                \* `except Exception` in worker: logged, the worker returns
                /\ faulted' = faulted \cup {w}
                /\ FaultEnds(w)
                /\ ppc' = AfterFault
                /\ UNCHANGED <<results, locker, queue, sent, done>>
           [] ev.kind = "match" /\ cls = "SingleThreadSearcher" ->
                \* push_results: self.results.append(data)
                /\ results' = Append(results, m)
                /\ sent' = sent (+) SetToBag({m})
                /\ wi' = [wi EXCEPT ![w] = ev.i]
                /\ wj' = [wj EXCEPT ![w] = ev.j + 1]
                /\ UNCHANGED <<ppc, wpc, wk, wrest, locker, queue, done, faulted>>
           [] ev.kind = "match" /\ cls = "MultiThreadSearcher" ->
                \* push_results: `with self.locker` acquires
                /\ LockerFree
                /\ locker' = w
                /\ wpc' = [wpc EXCEPT ![w] = "locked"]
                /\ wi' = [wi EXCEPT ![w] = ev.i]
                /\ wj' = [wj EXCEPT ![w] = ev.j]
                /\ UNCHANGED <<ppc, results, wk, wrest, queue, sent, done, faulted>>
           [] ev.kind = "match" /\ IsProc ->
                \* push_results: queue.put(data)
                /\ queue' = Append(queue, m)
                /\ sent' = sent (+) SetToBag({m})
                /\ wi' = [wi EXCEPT ![w] = ev.i]
                /\ wj' = [wj EXCEPT ![w] = ev.j + 1]
                /\ UNCHANGED <<ppc, results, wpc, wk, wrest, locker, done, faulted>>
  /\ UNCHANGED <<inputs, args, cur, calls, pi, fileq, saved,
                 owner, pops, late>>

LockerExitHeld(w) == w

\* the holder of self.locker once `with self.locker` is left
LockerExit(w) == 0

\* MultiThreadSearcher.push_results: the append under the lock, and its release
WAppend(w) ==
  /\ wpc[w] = "locked"
  /\ results' = Append(results, MatchAt(wk[w], wi[w], wj[w]))
  /\ sent' = sent (+) SetToBag({MatchAt(wk[w], wi[w], wj[w])})
  /\ locker' = LockerExit(w)
  /\ wj' = [wj EXCEPT ![w] = @ + 1]
  /\ wpc' = [wpc EXCEPT ![w] = "scan"]
  /\ UNCHANGED <<inputs, args, cur, calls, ppc, pi, wrest, wk, wi, queue, fileq,
                 saved, owner, pops, done, faulted, late>>

\* worker process w exits
WExit(w) ==
  /\ wpc[w] = "flush"
  /\ wpc' = [wpc EXCEPT ![w] = "dead"]
  /\ UNCHANGED <<inputs, args, cur, results, calls, ppc, pi, wrest, wk, wi, wj,
                 locker, queue, fileq, saved, history>>

\* the feeder thread of the parent: one buffered file to the pipe
FilesFeeder ==
  /\ ~Resting
  /\ fq_buf # <<>>
  /\ files_queue' = Append(files_queue, Head(fq_buf))
  /\ fq_buf' = Tail(fq_buf)
  /\ UNCHANGED <<inputs, args, cur, results, calls, ppc, pi, wpc, wrest, wk, wi, wj,
                 locker, queue, fq_rlock, saved, history>>

\* ------------------------------------------------- start_workers, search
\* `for i in range(n_workers)`: build worker i on its slice and start it
Spawn ==
  /\ ppc = "spawn"
  /\ IF pi < n_workers
     THEN /\ pi' = pi + 1
          /\ IF cls = "MultiProcessSearcher2"
             THEN /\ wpc' = [wpc EXCEPT ![pi + 1] = "get"]
                  /\ UNCHANGED <<args, wrest, owner>>
             ELSE /\ wpc' = [wpc EXCEPT ![pi + 1] = "next"]
                  /\ args' = [args EXCEPT ![pi + 1] = Slice(pi)]
                  /\ wrest' = [wrest EXCEPT ![pi + 1] = Slice(pi)]
                  /\ owner' = [k \in 1..F |->
                                 IF k \in Range(Slice(pi)) THEN pi + 1 ELSE owner[k]]
          /\ UNCHANGED ppc
     ELSE /\ ppc' = IF cls = "MultiThreadSearcher" THEN "join" ELSE "alive"
          /\ pi' = 0
          /\ UNCHANGED <<wpc, args, wrest, owner>>
  /\ UNCHANGED <<inputs, cur, results, calls, wk, wi, wj, locker, queue, fileq,
                 saved, sent, pops, done, faulted, late>>

JoinNoWait(w) == TRUE

\* t.join() returns
Joined(w) == wpc[w] = "dead"

\* `[t.join() for t in threads]`
Join ==
  /\ ppc = "join"
  /\ IF pi < n_workers
     THEN /\ Joined(pi + 1)
          /\ pi' = pi + 1
          /\ UNCHANGED ppc
     ELSE /\ ppc' = "sort"
          /\ pi' = 0
  /\ UNCHANGED <<inputs, args, cur, results, calls, wpc, wrest, wk, wi, wj, locker,
                 queue, fileq, saved, history>>

\* SingleThreadSearcher.start_workers: the inline worker call has returned
InlineReturn ==
  /\ ppc = "inline"
  /\ wpc[1] = "dead"
  /\ ppc' = "sort"
  /\ UNCHANGED <<inputs, args, cur, results, calls, pi, wpc, wrest, wk, wi, wj, locker,
                 queue, fileq, saved, history>>

AnyAliveFirstOnly == n_workers >= 1 /\ wpc[1] \notin {"none", "dead"}

\* any(p.is_alive() for p in processes)
AnyAlive == \E w \in 1..n_workers : wpc[w] \notin {"none", "dead"}

AfterLoopNoDrain == "sort"

\* where start_workers goes on after the polling loop
AfterLoop == "drain"

\* the test of `while any(p.is_alive() for p in processes)`
PollAlive ==
  /\ ppc = "alive"
  /\ ppc' = IF AnyAlive THEN "empty" ELSE AfterLoop
  /\ UNCHANGED <<inputs, args, cur, results, calls, pi, wpc, wrest, wk, wi, wj, locker,
                 queue, fileq, saved, history>>

QueueEmptyNever == FALSE

\* queue.empty(): the pipe of the result queue holds nothing
QueueEmpty == queue = <<>>

\* `if not queue.empty()` in the polling loop
PollEmpty ==
  /\ ppc = "empty"
  /\ ppc' = IF ~QueueEmpty THEN "get" ELSE "alive"
  /\ UNCHANGED <<inputs, args, cur, results, calls, pi, wpc, wrest, wk, wi, wj, locker,
                 queue, fileq, saved, history>>

\* self.results.append(queue.get()): get() blocks while the pipe is empty
QueueGet(next) ==
  /\ queue # <<>>
  /\ results' = Append(results, Head(queue))
  /\ queue' = Tail(queue)
  /\ ppc' = next
  /\ UNCHANGED <<inputs, args, cur, calls, pi, wpc, wrest, wk, wi, wj, locker,
                 fileq, saved, sent, owner, pops, done, faulted>>

PollGet == ppc = "get" /\ QueueGet("alive") /\ UNCHANGED late

\* the test of `while not queue.empty()` after the polling loop
Drain ==
  /\ ppc = "drain"
  /\ ppc' = IF ~QueueEmpty THEN "drainget" ELSE "sort"
  /\ UNCHANGED <<inputs, args, cur, results, calls, pi, wpc, wrest, wk, wi, wj, locker,
                 queue, fileq, saved, history>>

DrainGet == ppc = "drainget" /\ QueueGet("drain") /\ late' = late + 1

\* start_workers has returned: search() sorts and returns self.  The queues
\* of the call are local to start_workers and are dropped with it.
SortReturn ==
  /\ ppc = "sort"
  /\ results' = Sort(results)
  /\ ppc' = "idle"
  /\ raw' = results
  /\ first' = IF calls = 1 THEN results' ELSE first
  /\ ref' = IF calls = 1 /\ cur = 1 THEN results' ELSE ref
  /\ queue' = <<>>
  /\ files_queue' = <<>>
  /\ fq_buf' = <<>>
  /\ UNCHANGED <<inputs, args, cur, calls, pi, wpc, wrest, wk, wi, wj, locker,
                 fq_rlock, base, history>>

Next ==
  \/ NewSearcher
  \/ Search
  \/ Spawn
  \/ Join
  \/ InlineReturn
  \/ PollAlive
  \/ PollEmpty
  \/ PollGet
  \/ Drain
  \/ DrainGet
  \/ SortReturn
  \/ FilesFeeder
  \/ \E w \in Workers : WNext(w)
  \/ \E w \in Workers : WGet(w)
  \/ \E w \in Workers : WRecv(w)
  \/ \E w \in Workers : WScan(w)
  \/ \E w \in Workers : WAppend(w)
  \/ \E w \in Workers : WExit(w)

NextCall ==
  \/ Search
  \/ Spawn
  \/ Join
  \/ InlineReturn
  \/ PollAlive
  \/ PollEmpty
  \/ PollGet
  \/ Drain
  \/ DrainGet
  \/ SortReturn
  \/ FilesFeeder
  \/ \E w \in Workers : WNext(w)
  \/ \E w \in Workers : WGet(w)
  \/ \E w \in Workers : WRecv(w)
  \/ \E w \in Workers : WScan(w)
  \/ \E w \in Workers : WAppend(w)
  \/ \E w \in Workers : WExit(w)

\* One searcher of any class, and search() called on it up to MaxCalls times.
Spec == Init /\ [][NextCall]_vars

\* the steps of worker w (a thread, a process, or the inline call)
WorkerStep(w) ==
  WNext(w) \/ WGet(w) \/ WRecv(w) \/ WScan(w) \/ WAppend(w) \/ WExit(w)

\* the steps of the caller of search() inside the call
ParentStep ==
  \/ Spawn
  \/ Join
  \/ InlineReturn
  \/ PollAlive
  \/ PollEmpty
  \/ PollGet
  \/ Drain
  \/ DrainGet
  \/ SortReturn

\* The operating system schedules the caller while it can run, and some
\* worker while any can run.
Fairness ==
  /\ WF_vars(ParentStep)
  /\ WF_vars(\E w \in Workers : WorkerStep(w))

\* search() with n_workers >= 1 on up to MaxFewFiles files
InitFair ==
  /\ Init
  /\ n_workers >= 1
  /\ F <= MaxFewFiles

\* the first call of search() on the searcher
FirstSearch == calls = 0 /\ Search

NextOnce ==
  \/ FirstSearch
  \/ ParentStep
  \/ FilesFeeder
  \/ \E w \in Workers : WorkerStep(w)

SpecFair == InitFair /\ [][NextOnce]_vars /\ Fairness

\* run_tests: a fresh searcher of each class in turn, on the same arguments.
InitTests == Init /\ cur = 1
SpecTests == InitTests /\ [][Next]_vars

\* search() with up to MaxProcs workers, more than files, on a fresh searcher
InitMany == InitWith(1..MaxProcs, MaxFewFiles)
SpecMany == InitMany /\ [][NextOnce]_vars

\* ------------------------------------------------------------ the claims
Static == cls \in {"MultiThreadSearcher", "MultiProcessSearcher"}
Dynamic == cls = "MultiProcessSearcher2"

\* search() has returned normally and has not been called again
Returned == ppc = "idle" /\ calls >= 1

\* start_workers has started every worker of the call
SpawnDone == calls >= 1 /\ ppc \notin {"spawn", "raised"}

\* the files scanned, by name
Names(s) == [p \in DOMAIN s |-> files[s[p]]]

\* ceil(a / b) for b >= 1
CeilDiv(a, b) == CHOOSE c \in 0..a : c * b >= a /\ (c = 0 \/ (c - 1) * b < a)

RECURSIVE ConcatArgs(_)
\* the slices of workers w..n_workers, concatenated
ConcatArgs(w) ==
  IF w > n_workers THEN <<>> ELSE Names(args[w]) \o ConcatArgs(w + 1)

\* the tuples (word, file, line) for the lines of file k that contain a word
FileMatchSet(k) ==
  IF ~Disk(files[k]).exists THEN {}
  ELSE {<<key_words[t[2]], files[k], t[1] - 1>> :
          t \in {u \in (DOMAIN Disk(files[k]).lines) \X (DOMAIN key_words) :
                   Contains(Lower(Disk(files[k]).lines[u[1]]), key_words[u[2]])}}

\* the tuples a complete scan of the files K yields
MatchSet(K) == UNION {FileMatchSet(k) : k \in K}

\* C1: for n_workers >= 1 the result list a fresh searcher of any class is left
\* with by search() equals the one the fresh SingleThreadSearcher was left with.
C1_CrossStrategyEqual ==
  (n_workers >= 1 /\ cur > 1 /\ ppc = "idle" /\ calls = 1) => results = ref

\* C2: whenever search() has returned (n_workers >= 1), however often it was
\* called on the searcher, `results` is the list the first call left.
C2_SearchIdempotent == (Returned /\ n_workers >= 1) => results = first

\* C3: static partitioning with n_workers >= 1 gives worker i the slice
\* files[i*ceil(F/N) : (i+1)*ceil(F/N)], every file index is in exactly one
\* slice, and the slices of workers 0..N-1 concatenated are the file list.
C3_StaticPartition ==
  (Static /\ n_workers >= 1 /\ SpawnDone) =>
    /\ \A w \in 1..n_workers :
         Names(args[w]) =
           SubSeq(files, Min((w - 1) * CeilDiv(F, n_workers), F) + 1,
                         Min(w * CeilDiv(F, n_workers), F))
    /\ \A k \in 1..F : Cardinality({w \in 1..n_workers : k \in Range(args[w])}) = 1
    /\ ConcatArgs(1) = files

\* two workers, three files: slices of two files and of one file
C3_Witness ==
  /\ Static /\ SpawnDone
  /\ n_workers = 2 /\ F = 3
  /\ Len(args[1]) = 2 /\ Len(args[2]) = 1

\* C4: when start_workers of MultiProcessSearcher2 returns (n_workers >= 1),
\* every file of the list has been taken from the file queue by some worker.
C4_EveryFilePopped ==
  (Dynamic /\ n_workers >= 1 /\ ppc = "sort") => \A k \in 1..F : pops[k] >= 1

\* C5: in MultiProcessSearcher2 no entry of the file queue is ever received
\* twice, by two workers or by one.
C5_NoFilePoppedTwice == Dynamic => \A k \in 1..F : pops[k] <= 1

\* two workers have each received a file
C5_Witness ==
  /\ Dynamic
  /\ \E k1, k2 \in 1..F : owner[k1] = 1 /\ owner[k2] = 2

\* C6: when start_workers of a process searcher returns, the result queue is
\* empty and `results` holds, beyond what it held at the call, exactly the
\* tuples the workers put, each once.
C6_NoMatchLost ==
  (IsProc /\ ppc = "sort") =>
    /\ queue = <<>>
    /\ BagOfSeq(results) = BagOfSeq(base) (+) sent

\* start_workers returns after the final drain picked up a tuple that reached
\* the queue after the last liveness check found a worker alive
C6_Witness == IsProc /\ ppc = "sort" /\ late >= 1

\* C7: whenever search() has returned (n_workers >= 1), `results` is in
\* ascending order of (word, file_name, line_number).
C7_ResultsSorted == (Returned /\ n_workers >= 1) => IsSorted(results)

\* search() has returned and the workers had left the tuples out of order
C7_Witness == Returned /\ n_workers >= 1 /\ ~IsSorted(raw)

\* C8: with a nonexistent file in the list and no file that raises, the first
\* search() (n_workers >= 1) returns with no worker fault, every file a worker
\* was given or took read through, and exactly the matches of the existing
\* files in `results`.
C8_MissingFileTolerated ==
  ( /\ n_workers >= 1
    /\ ppc = "idle" /\ calls = 1
    /\ \E k \in 1..F : ~Disk(files[k]).exists
    /\ \A k \in 1..F : ~Disk(files[k]).raises ) =>
    /\ faulted = {}
    /\ \A k \in 1..F : owner[k] # 0 => k \in done
    /\ BagOfSeq(results) = SetToBag(MatchSet(1..F))

\* the files assigned to or popped by a worker that did not raise
SoundFiles == {k \in 1..F : owner[k] # 0 /\ owner[k] \notin faulted}

C10_WorkersTerminated ==
  ppc \in {"drain", "drainget", "sort", "idle", "raised"} =>
    \A w \in Workers : wpc[w] \in {"none", "dead"}

\* start_workers of the thread searcher has returned after joining two
\* threads that both pushed
C10_Witness ==
  /\ cls = "MultiThreadSearcher" /\ ppc = "sort"
  /\ n_workers = 2
  /\ \A w \in 1..2 : wpc[w] = "dead" /\ args[w] # <<>>
  /\ sent # EmptyBag

\* C11: for n_workers >= 1, under fair scheduling of the caller and the workers,
\* every call of search() returns: from every state inside a call a state is
\* reached where search() has returned, whatever files are missing or raise.
C11_SearchReturns == (n_workers >= 1 /\ ~Resting) ~> (ppc = "idle")

\* search() has returned after two workers ran, one of them raised and a
\* missing file was passed over
C11_Witness ==
  /\ Returned /\ n_workers = 2
  /\ faulted # {}
  /\ \E k \in done : ~Disk(files[k]).exists

\* C12: once search() has been called with n_workers <= 0 the call has raised:
\* no worker was started, no file was taken, and the call is neither running
\* nor returned with a result list.
C12_NonPositiveRejected ==
  (n_workers <= 0 /\ calls >= 1) =>
    /\ ppc = "raised"
    /\ \A w \in Workers : wpc[w] = "none"
    /\ \A k \in 1..F : pops[k] = 0

\* reading file k raises
FileRaises(k) == Disk(files[k]).exists /\ Disk(files[k]).raises

RECURSIVE ScanSlice(_)
\* every tuple worker() pushes when given the files s: it stops at a file that raises
ScanSlice(s) ==
  IF s = <<>> THEN <<>>
  ELSE ScanFrom(Head(s), 0, 1)
         \o (IF FileRaises(Head(s)) THEN <<>> ELSE ScanSlice(Tail(s)))

\* the slice of worker w of n: files[(w-1)*ceil(F/n) : w*ceil(F/n)], as indices
SliceFor(n, w) ==
  LET lo == Min((w - 1) * CeilDiv(F, n), F)
      hi == Min(w * CeilDiv(F, n), F)
  IN  [p \in 1..(hi - lo) |-> lo + p]

RECURSIVE StaticBagFrom(_, _)
\* what workers w..n of a static searcher with n workers push, as a bag
StaticBagFrom(n, w) ==
  IF w > n THEN EmptyBag
  ELSE BagOfSeq(ScanSlice(SliceFor(n, w))) (+) StaticBagFrom(n, w + 1)

\* C13: when the first search() of a static searcher with n_workers > F has
\* returned, every worker beyond the F-th had an empty slice, took no file,
\* did not raise and is over, and `results` holds what a search with any
\* n in 1..F workers yields.
C13_ExtraWorkersIdle ==
  (Static /\ n_workers > F /\ ppc = "idle" /\ calls = 1) =>
    /\ \A w \in (F + 1)..n_workers :
         /\ args[w] = <<>>
         /\ w \notin faulted
         /\ wpc[w] = "dead"
         /\ \A k \in 1..F : owner[k] # w
    /\ \A n \in 1..F : BagOfSeq(results) = StaticBagFrom(n, 1)

\* C14: for every file read through in the call, the tuples pushed with its
\* name are exactly the (word, file_name, i) with word in the key words and
\* line i (from 0) containing it once lower-cased, each pushed once, however
\* often the word occurs in the line.
C14_OneMatchPerPair ==
  \A k \in done :
    /\ \A m \in FileMatchSet(k) : CopiesIn(m, sent) = 1
    /\ \A m \in BagToSet(sent) : m[2] = files[k] => m \in FileMatchSet(k)

\* FileA is read through: its line 0, "Gogo", holds "go" twice and gave one
\* tuple, its line 1, "go as", gave one tuple for each word
C14_Witness ==
  /\ key_words = <<Go, As>>
  /\ \E k \in done :
       /\ files[k] = FileA
       /\ CopiesIn(<<Go, FileA, 0>>, sent) = 1
       /\ CopiesIn(<<Go, FileA, 1>>, sent) = 1
       /\ CopiesIn(<<As, FileA, 1>>, sent) = 1

\* C15: with an empty key word list, the first search() on a searcher of any
\* class (n_workers >= 1) pushes nothing and returns with `results` empty.
C15_NoKeywordsNoMatch ==
  (key_words = <<>> /\ n_workers >= 1 /\ calls = 1) =>
    /\ sent = EmptyBag
    /\ ppc = "idle" => results = <<>>

\* search() has returned on an empty key word list after FileA, which has
\* lines, was read through
C15_Witness ==
  /\ key_words = <<>> /\ n_workers >= 1
  /\ ppc = "idle" /\ calls = 1
  /\ \E k \in done : files[k] = FileA

\* C16: in MultiThreadSearcher at most one thread is inside the append, and
\* it holds the lock; when all threads are joined `results` holds, beyond
\* what it held at the call, exactly the tuples pushed, and every match of
\* every file read through is among them once.
C16_AppendUnderLock ==
  cls = "MultiThreadSearcher" =>
    /\ Cardinality({w \in Workers : wpc[w] = "locked"}) <= 1
    /\ \A w \in Workers : wpc[w] = "locked" => locker = w
    /\ ppc = "sort" =>
         /\ BagOfSeq(results) = BagOfSeq(base) (+) sent
         /\ \A k \in done : \A m \in FileMatchSet(k) :
              CopiesIn(m, BagOfSeq(results)) = CopiesIn(m, BagOfSeq(base)) + 1

\* one thread is inside the append while another has a match to push and
\* waits for the lock
C16_Witness ==
  /\ cls = "MultiThreadSearcher"
  /\ \E w1, w2 \in Workers :
       /\ wpc[w1] = "locked"
       /\ wpc[w2] = "scan"
       /\ NextEvent(wk[w2], wi[w2], wj[w2]).kind = "match"

\* C17: whenever search() is about to sort, no worker of the call is running
\* and the result queue is empty; a call reaches its return only through that
\* one sort; every other step leaves `results` alone or appends one tuple to
\* it; and after the return nothing is appended.
C17_SortOnceAtEnd ==
  /\ [](ppc = "sort" =>
          /\ \A w \in Workers : wpc[w] \in {"none", "dead"}
          /\ queue = <<>>)
  /\ [][(ppc # "idle" /\ ppc' = "idle") => (ppc = "sort" /\ results' = Sort(results))]_vars
  /\ [][ppc # "sort" =>
          \/ results' = results
          \/ /\ Len(results') = Len(results) + 1
             /\ SubSeq(results', 1, Len(results)) = results]_vars
  /\ [][ppc = "idle" => results' = results]_vars

\* start_workers of MultiProcessSearcher has returned after two processes
\* both had files, with the tuples out of order
C17_Witness ==
  /\ cls = "MultiProcessSearcher" /\ ppc = "sort"
  /\ n_workers = 2
  /\ \A w \in 1..2 : args[w] # <<>>
  /\ ~IsSorted(results)

\* C18: in MultiProcessSearcher2, whenever a worker's pop of the file queue
\* polls the pipe, no file is still in the parent's put buffer, out of the
\* pop's sight; and a worker that did not raise is over only when every file
\* has been taken.
C18_FilesVisibleBeforePop ==
  /\ [][\A w \in Workers :
          (Dynamic /\ wpc[w] = "recv" /\ wpc'[w] # "recv") => fq_buf = <<>>]_vars
  /\ [](Dynamic =>
          \A w \in Workers :
            (wpc[w] \in {"flush", "dead"} /\ w \notin faulted) =>
              \A k \in 1..F : pops[k] >= 1)

\* C19: in the process searchers, whenever the parent is at a queue.get() the
\* result queue holds a tuple: the parent is never blocked in a receive on an
\* empty queue, whatever the workers do or have done.
C19_ReceiveAfterNonEmpty ==
  (IsProc /\ ppc \in {"get", "drainget"}) => queue # <<>>

\* the parent is at queue.get() in the polling loop after every worker has
\* exited
C19_Witness ==
  /\ IsProc /\ ppc = "get"
  /\ n_workers = 2
  /\ \A w \in 1..2 : wpc[w] = "dead"
  /\ queue # <<>>

\* C20: when search() has returned (n_workers >= 1), every tuple pushed in
\* the call is in `results`, among them the matches of the lines a raising
\* file gave before it raised; and in the classes that hand a worker a list
\* of files, the files that follow a raising file in the list were not opened
\* and have no tuple among those pushed.
C20_PartialResultsKept ==
  (Returned /\ n_workers >= 1) =>
    /\ sent \sqsubseteq BagOfSeq(results)
    /\ \A k \in 1..F :
         (FileRaises(k) /\ pops[k] >= 1) =>
           \A m \in FileMatchSet(k) : CopiesIn(m, sent) >= 1
    /\ ~Dynamic =>
         \A w \in faulted : \A p, q \in DOMAIN args[w] :
           (p < q /\ FileRaises(args[w][p])) =>
             /\ pops[args[w][q]] = 0
             /\ \A m \in BagToSet(sent) : m[2] # files[args[w][q]]

\* search() has returned; a worker raised on a file that had given a match,
\* and a file with matches followed it in the worker's list
C20_Witness ==
  /\ Returned /\ n_workers >= 1 /\ ~Dynamic
  /\ \E w \in faulted : \E p, q \in DOMAIN args[w] :
       /\ p < q
       /\ FileRaises(args[w][p])
       /\ FileMatchSet(args[w][p]) # {}
       /\ FileMatchSet(args[w][q]) # {}

====
